---- MODULE Spec2Model ----
(***************************************************************************)
(* A model of the sockpp socket core (socket.cpp, kept in                   *)
(* src/include/sockpp/tcp.h from line 85 on): the handle lifecycle of the   *)
(* owner objects, the timeout-bounded connect of the connector, and the     *)
(* N-byte stream loops.  The build modelled is the POSIX one (the #else     *)
(* branches).                                                               *)
(*                                                                          *)
(* The operating system is modelled as a descriptor table: socket(), dup()  *)
(* and accept() hand out the lowest free descriptor number, close() frees   *)
(* it.  Code functions are operators from a world record to the set of      *)
(* outcomes the operating system allows; the actions commit one outcome.    *)
(***************************************************************************)
EXTENDS Integers, Sequences, FiniteSets, TLC

\* ------------------------------------------------------------------ bounds

\* Descriptor numbers the descriptor table can hand out.
MaxFd == 2

\* "Interrupted" errors (signals) the environment may deliver in one run.
MaxIntr == 1

\* Width in bits of the model's `int` (32 in the build; scaled so that the
\* wrap of int(...) at tcp.h:640 can be represented).
IntBits == 5

\* ---------------------------------------------------------------- constants

INVALID_SOCKET == -1

Owners == {"acc", "conn", "sock"}

FDs == 1..MaxFd

Handles == FDs \cup {INVALID_SOCKET}

\* Error codes (errc / errno), by name.  NoErr is error_code{} (value 0).
NoErr == "none"

ConnErrs == {"refused", "unreachable", "timed_out"}

\* ------------------------------------------------------------------ result<T>

\* result<T>: a value and an error code; success iff the error code is zero.
Ok(v) == [err |-> NoErr, val |-> v]

Err(e) == [err |-> e, val |-> 0]

IsOk(r) == r.err = NoErr

\* result<int>::from_error(int): the pending error 0 is the no-error code.
from_error(e) == [err |-> e, val |-> 0]

\* ------------------------------------------------------------------ variables

VARIABLES
    handle,     \* handle[o]: socket::handle_ of owner o
    file,       \* the OS descriptor table: file[d] is the socket descriptor d
                \* refers to, 0 when d is not open
    fl,         \* fl[f]: the file status flags of socket f (F_GETFL / F_SETFL)
    lsn,        \* the sockets that are bound and listening
    link,       \* the pairs {f, g} of sockets connected to each other in this process
    raw,        \* descriptors the caller holds as raw handles (after release())
    bad,        \* some ::close() was issued on a stale descriptor number
    lastOp,     \* the last operation that returned: what it did and returned
    cc,         \* the connect call in flight (its locals and position)
    kc,         \* the closing thread of the race scenario
    io          \* the stream scenario: both ends of a connected pair

vars == <<handle, file, fl, lsn, link, raw, bad, lastOp, cc, kc, io>>

\* The world a code function acts on; log lists the OS calls made by the
\* operation in progress, each <<name, descriptor>>.
\* faults tells whether the OS may fail a call on a valid descriptor for want
\* of resources (fcntl, getsockopt) while the operation runs.
World ==
    [handle |-> handle, file |-> file, fl |-> fl, lsn |-> lsn, link |-> link, raw |-> raw,
     bad |-> bad, log |-> <<>>, faults |-> FALSE]

Commit(w) ==
    /\ handle' = w.handle
    /\ file' = w.file
    /\ fl' = w.fl
    /\ lsn' = w.lsn
    /\ link' = w.link
    /\ raw' = w.raw
    /\ bad' = w.bad

\* ------------------------------------------------------------------ the OS

Logged(w, name, h) == [w EXCEPT !.log = Append(@, <<name, h>>)]

IsOpen(w, d) == d \in FDs /\ w.file[d] # 0

OpenFds(w) == {d \in FDs : w.file[d] # 0}

FreeFds(w) == FDs \ OpenFds(w)

LowestFree(w) == CHOOSE f \in FreeFds(w) : \A g \in FreeFds(w) : f <= g

FreeFiles(w) == FDs \ {w.file[d] : d \in FDs}

NewFile(w) == CHOOSE f \in FreeFiles(w) : \A g \in FreeFiles(w) : f <= g

\* A new socket enters the table at the lowest free descriptor, no flag set.
os_alloc(w, name) == [Logged(w, name, LowestFree(w)) EXCEPT !.file[LowestFree(w)] = NewFile(w)]

\* ::socket(): the lowest free descriptor, or a failure (always possible).
os_socket(w) ==
    {[w |-> Logged(w, "socket", INVALID_SOCKET), res |-> Err("emfile")]}
    \cup (IF FreeFds(w) = {} THEN {}
          ELSE {[w |-> os_alloc(w, "socket"), res |-> Ok(LowestFree(w))]})

\* The table after descriptor h is freed: the socket goes with its last
\* descriptor.
Freed(w, h) ==
    LET f == w.file[h]
        last == \A d \in FDs \ {h} : w.file[d] # f
    IN  [w EXCEPT !.file[h] = 0,
                  !.fl[f] = IF last THEN {} ELSE @,
                  !.lsn = IF last THEN @ \ {f} ELSE @,
                  !.link = IF last THEN {l \in @ : f \notin l} ELSE @]

\* ::close(h): frees an open descriptor (even when it reports an error);
\* on anything else it fails with EBADF.
os_close(w, h) ==
    IF IsOpen(w, h)
    THEN {[w |-> Freed(Logged(w, "close", h), h), res |-> r] : r \in {Ok(0), Err("io")}}
    ELSE {[w |-> [Logged(w, "close", h) EXCEPT !.bad = (h # INVALID_SOCKET) \/ @],
           res |-> Err("bad_fd")]}

\* ::dup(h): a second descriptor for the same socket.
os_dup(w, h) ==
    IF ~IsOpen(w, h) THEN {[w |-> Logged(w, "dup", h), res |-> Err("bad_fd")]}
    ELSE {[w |-> Logged(w, "dup", h), res |-> Err("emfile")]}
         \cup (IF FreeFds(w) = {} THEN {}
               ELSE {[w |-> [Logged(w, "dup", h) EXCEPT !.file[LowestFree(w)] = w.file[h]],
                      res |-> Ok(LowestFree(w))]})

\* A failed call that returns flags: the value is the empty default.
ErrFl(e) == [err |-> e, val |-> {}]

\* ::fcntl(h, F_GETFL): the flags, or a failure.
os_getfl(w, h) ==
    IF ~IsOpen(w, h) THEN {[w |-> Logged(w, "getfl", h), res |-> ErrFl("bad_fd")]}
    ELSE {[w |-> Logged(w, "getfl", h), res |-> r] :
              r \in {[err |-> NoErr, val |-> w.fl[w.file[h]]]}
                    \cup (IF w.faults THEN {ErrFl("nolck")} ELSE {})}

\* ::fcntl(h, F_SETFL, flags)
os_setfl(w, h, flags) ==
    IF ~IsOpen(w, h) THEN {[w |-> Logged(w, "setfl", h), res |-> Err("bad_fd")]}
    ELSE {[w |-> [Logged(w, "setfl", h) EXCEPT !.fl[w.file[h]] = flags], res |-> Ok(0)]}
         \cup (IF w.faults THEN {[w |-> Logged(w, "setfl", h), res |-> Err("nolck")]} ELSE {})

\* ------------------------------------------------------------------ socket

\* check_res_none(::close(h))
socket_close_h(w, h) == os_close(w, h)

\* socket::release(): give the handle up without closing it.
release(w, o) == [w |-> [w EXCEPT !.handle[o] = INVALID_SOCKET], h |-> w.handle[o]]

\* close() that closes the descriptor and keeps the handle.
socket_close_keeps(w, o) ==
    IF w.handle[o] # INVALID_SOCKET
    THEN socket_close_h(w, w.handle[o])
    ELSE {[w |-> w, res |-> Ok(0)]}

\* socket::close()
socket_close(w, o) ==
    IF w.handle[o] # INVALID_SOCKET
    THEN socket_close_h(release(w, o).w, release(w, o).h)
    ELSE {[w |-> w, res |-> Ok(0)]}

\* reset(h) that drops the old handle without closing it.
reset_leaks(w, o, h) == {[w EXCEPT !.handle[o] = h]}

\* reset(h) that closes the handle it is given instead of the one it held.
reset_closes_given(w, o, h) ==
    IF h # w.handle[o]
    THEN LET w1 == [w EXCEPT !.handle[o] = h]
         IN  IF h # INVALID_SOCKET THEN {x.w : x \in socket_close_h(w1, h)} ELSE {w1}
    ELSE {w}

\* socket::reset(h): the result of close(h) is dropped.
reset(w, o, h) ==
    IF h # w.handle[o]
    THEN LET old == w.handle[o]
             w1 == [w EXCEPT !.handle[o] = h]
         IN  IF old # INVALID_SOCKET THEN {x.w : x \in socket_close_h(w1, old)} ELSE {w1}
    ELSE {w}

\* socket::create_handle(domain): check_socket(::socket(...))
create_handle(w) == os_socket(w)

\* socket::create(domain, type, protocol): the new owner takes the descriptor.
socket_create(w, o) ==
    {IF IsOk(x.res) THEN [w |-> [x.w EXCEPT !.handle[o] = x.res.val], res |-> Ok(0)] ELSE x :
         x \in os_socket(w)}

\* clone() that hands the new owner the same descriptor.
clone_aliases(w, o, n) ==
    {IF IsOk(x.res) THEN [w |-> [w EXCEPT !.handle[n] = w.handle[o]], res |-> Ok(0)] ELSE x :
         x \in os_dup(w, w.handle[o])}

\* clone() that makes a socket of its own for the new owner.
clone_fresh(w, o, n) ==
    {IF IsOk(x.res) THEN [w |-> [x.w EXCEPT !.handle[n] = x.res.val], res |-> Ok(0)] ELSE x :
         x \in os_socket(w)}

\* socket::clone(): dup(handle_) into a new owner n.
clone(w, o, n) ==
    {IF IsOk(x.res) THEN [w |-> [x.w EXCEPT !.handle[n] = x.res.val], res |-> Ok(0)] ELSE x :
         x \in os_dup(w, w.handle[o])}

\* socket::get_flags()
get_flags(w, o) == os_getfl(w, w.handle[o])

\* socket::set_flags(flags)
set_flags(w, o, flags) == os_setfl(w, w.handle[o], flags)

\* set_flag that writes the given flag alone.
set_flag_alone(w, o, flag, on) ==
    UNION {IF ~IsOk(g.res) THEN {[w |-> g.w, res |-> Err(g.res.err)]}
           ELSE set_flags(g.w, o, IF on THEN {flag} ELSE {}) :
               g \in get_flags(w, o)}

\* socket::set_flag(flag, on)
set_flag(w, o, flag, on) ==
    UNION {IF ~IsOk(g.res) THEN {[w |-> g.w, res |-> Err(g.res.err)]}
           ELSE set_flags(g.w, o, IF on THEN g.res.val \cup {flag} ELSE g.res.val \ {flag}) :
               g \in get_flags(w, o)}

\* socket::is_non_blocking(): false when the flags cannot be read.
is_non_blocking(w, o) ==
    {[w |-> g.w, val |-> IF IsOk(g.res) THEN "O_NONBLOCK" \in g.res.val ELSE FALSE] :
         g \in get_flags(w, o)}

\* socket::set_non_blocking(on)
set_non_blocking(w, o, on) == set_flag(w, o, "O_NONBLOCK", on)

\* ::getsockopt(h, SOL_SOCKET, SO_ERROR): the pending error of the connect
\* to `peer` (0 once the peer has accepted), or a failure of the call.
os_getsockopt(w, h, peer) ==
    IF ~IsOpen(w, h) THEN {[w |-> Logged(w, "getsockopt", h), res |-> Err("bad_fd"), optval |-> NoErr]}
    ELSE {[w |-> Logged(w, "getsockopt", h), res |-> Ok(0),
           optval |-> IF peer \in ConnErrs THEN peer ELSE NoErr]}
         \cup (IF w.faults
               THEN {[w |-> Logged(w, "getsockopt", h), res |-> Err("nobufs"), optval |-> NoErr]}
               ELSE {})

\* get_option that reports success whatever ::getsockopt returned.
get_option_truthy(w, o, peer) ==
    {[w |-> g.w, res |-> Ok(0), optval |-> g.optval] :
         g \in os_getsockopt(w, w.handle[o], peer)}

\* socket::get_option(level, optname, optval, optlen)
get_option(w, o, peer) ==
    {[w |-> g.w, res |-> IF IsOk(g.res) THEN Ok(0) ELSE Err(g.res.err), optval |-> g.optval] :
         g \in os_getsockopt(w, w.handle[o], peer)}

\* ::setsockopt(h, SOL_SOCKET, opt, true)
os_setsockopt(w, h) ==
    IF ~IsOpen(w, h) THEN {[w |-> Logged(w, "setsockopt", h), res |-> Err("bad_fd")]}
    ELSE {[w |-> Logged(w, "setsockopt", h), res |-> r] : r \in {Ok(0), Err("noprotoopt")}}

\* socket::set_option(level, optname, optval, optlen)
set_option(w, o) == os_setsockopt(w, w.handle[o])

\* ::bind(h, addr)
os_bind(w, h) ==
    IF ~IsOpen(w, h) THEN {[w |-> Logged(w, "bind", h), res |-> Err("bad_fd")]}
    ELSE {[w |-> Logged(w, "bind", h), res |-> r] : r \in {Ok(0), Err("addr_in_use")}}

\* The reuse arguments: 0, the two options the platform supports, another one.
ReuseArgs == {"0", "SO_REUSEADDR", "SO_REUSEPORT", "SO_KEEPALIVE"}

\* bind() that ignores a reuse option it does not know.
bind_ignores(w, o, reuse) ==
    UNION {IF ~IsOk(s.res) THEN {s} ELSE os_bind(s.w, s.w.handle[o]) :
               s \in IF reuse \in {"SO_REUSEADDR", "SO_REUSEPORT"} THEN set_option(w, o)
                     ELSE {[w |-> w, res |-> Ok(0)]}}

\* socket::bind(addr, reuse)
bind(w, o, reuse) ==
    IF reuse # "0" /\ reuse # "SO_REUSEADDR" /\ reuse # "SO_REUSEPORT"
    THEN {[w |-> w, res |-> Err("invalid_argument")]}
    ELSE UNION {IF ~IsOk(s.res) THEN {s} ELSE os_bind(s.w, s.w.handle[o]) :
                    s \in IF reuse # "0" THEN set_option(w, o) ELSE {[w |-> w, res |-> Ok(0)]}}

\* ::listen(h, queSize)
os_listen(w, h) ==
    IF ~IsOpen(w, h) THEN {[w |-> Logged(w, "listen", h), res |-> Err("bad_fd")]}
    ELSE {[w |-> [Logged(w, "listen", h) EXCEPT !.lsn = @ \cup {w.file[h]}], res |-> Ok(0)],
          [w |-> Logged(w, "listen", h), res |-> Err("addr_in_use")]}

\* socket::listen(queSize)
listen(w, o) == os_listen(w, w.handle[o])

\* socket::is_open()
is_open(w, o) == w.handle[o] # INVALID_SOCKET

\* The outcomes of close() on each of the outcomes xs, keeping their result.
ThenClose(xs, o) == UNION {{[w |-> c.w, res |-> x.res] : c \in socket_close(x.w, o)} : x \in xs}

\* open() that opens anew whatever the acceptor holds.
acceptor_open_anew(w, o, reuse) ==
    UNION {
        IF ~IsOk(c.res) THEN {[w |-> c.w, res |-> Err(c.res.err)]}
        ELSE UNION {
            UNION {
                IF ~IsOk(b.res) THEN ThenClose({b}, o)
                ELSE UNION {IF ~IsOk(l.res) THEN ThenClose({l}, o) ELSE {[w |-> l.w, res |-> Ok(0)]} :
                                l \in listen(b.w, o)} :
                    b \in bind(w1, o, reuse)} :
                w1 \in reset(c.w, o, c.res.val)} :
            c \in create_handle(w)}

\* acceptor::open(addr, queSize, reuse)
acceptor_open(w, o, reuse) ==
    IF is_open(w, o) THEN {[w |-> w, res |-> Ok(0)]}
    ELSE UNION {
        IF ~IsOk(c.res) THEN {[w |-> c.w, res |-> Err(c.res.err)]}
        ELSE UNION {
            UNION {
                IF ~IsOk(b.res) THEN ThenClose({b}, o)
                ELSE UNION {IF ~IsOk(l.res) THEN ThenClose({l}, o) ELSE {[w |-> l.w, res |-> Ok(0)]} :
                                l \in listen(b.w, o)} :
                    b \in bind(w1, o, reuse)} :
                w1 \in reset(c.w, o, c.res.val)} :
            c \in create_handle(w)}

\* ::accept(h): a descriptor for a new connection of a listening socket.
os_accept(w, h) ==
    IF ~IsOpen(w, h) THEN {[w |-> Logged(w, "accept", h), res |-> Err("bad_fd")]}
    ELSE IF w.file[h] \notin w.lsn THEN {[w |-> Logged(w, "accept", h), res |-> Err("inval")]}
    ELSE {[w |-> Logged(w, "accept", h), res |-> Err("would_block")]}
         \cup (IF FreeFds(w) = {} THEN {}
               ELSE {[w |-> os_alloc(w, "accept"), res |-> Ok(LowestFree(w))]})

\* accept() that hands out the listener's own descriptor.
accept_listener(w, o, n) ==
    {IF IsOk(x.res) THEN [w |-> [x.w EXCEPT !.handle[n] = w.handle[o]], res |-> Ok(0)] ELSE x :
         x \in os_accept(w, w.handle[o])}

\* acceptor::accept(clientAddr): the new owner n takes the descriptor.
accept(w, o, n) ==
    {IF IsOk(x.res) THEN [w |-> [x.w EXCEPT !.handle[n] = x.res.val], res |-> Ok(0)] ELSE x :
         x \in os_accept(w, w.handle[o])}

\* ::socketpair(domain, type, protocol, sv): two descriptors or none.
os_socketpair(w) ==
    {[w |-> Logged(w, "socketpair", INVALID_SOCKET), res |-> Err("emfile"), sv |-> <<INVALID_SOCKET, INVALID_SOCKET>>]}
    \cup (IF Cardinality(FreeFds(w)) < 2 THEN {}
          ELSE LET w1 == os_alloc(w, "socketpair")
                   w2 == os_alloc(w1, "socketpair")
               IN  {[w |-> [w2 EXCEPT !.link = @ \cup {{NewFile(w), NewFile(w1)}}], res |-> Ok(0),
                     sv |-> <<LowestFree(w), LowestFree(w1)>>]})

\* pair() that gives both owners the first descriptor.
pair_one_end(w, a, b) ==
    {IF IsOk(x.res)
     THEN [w |-> [x.w EXCEPT !.handle[a] = x.sv[1], !.handle[b] = x.sv[1]], res |-> Ok(0)]
     ELSE [w |-> x.w, res |-> Err(x.res.err)] :
         x \in os_socketpair(w)}

\* socket::pair on a platform without ::socketpair (lines 287-291).
pair_unsupported(w, a, b) == {[w |-> w, res |-> Err("function_not_supported")]}

\* socket::pair(domain, type, protocol): the new owners a and b take sv[0], sv[1].
pair(w, a, b) ==
    {IF IsOk(x.res)
     THEN [w |-> [x.w EXCEPT !.handle[a] = x.sv[1], !.handle[b] = x.sv[2]], res |-> Ok(0)]
     ELSE [w |-> x.w, res |-> Err(x.res.err)] :
         x \in os_socketpair(w)}

\* Move assignment of an owner: the destination releases what it holds and
\* takes the source's handle.
move_assign(w, d, s) == reset(release(w, s).w, d, release(w, s).h)

\* ------------------------------------------------------------------ connector

\* The remote endpoint of a connect: it accepts, it never answers, or the OS
\* reports the given error for the connection.
Peers == {"accept", "silent"} \cup ConnErrs

\* ::connect(h, addr).  On a non-blocking socket the call may report that the
\* connection is in progress; on a blocking one it returns the outcome (a
\* peer that never answers ends in the OS's own timed_out error).
os_connect(w, h, peer) ==
    IF ~IsOpen(w, h) THEN {[w |-> Logged(w, "connect", h), res |-> Err("bad_fd")]}
    ELSE {[w |-> Logged(w, "connect", h), res |-> r] :
              r \in IF "O_NONBLOCK" \in w.fl[w.file[h]]
                    THEN {Err("in_progress"), Err("would_block")}
                         \cup (IF peer = "accept" THEN {Ok(0)} ELSE {})
                         \cup (IF peer \in {"refused", "unreachable"} THEN {Err(peer)} ELSE {})
                    ELSE IF peer = "accept" THEN {Ok(0)}
                    ELSE IF peer = "silent" THEN {Err("timed_out")}
                    ELSE {Err(peer)}}

\* ::poll(&fds, 1, ms) on descriptor pfd, waiting for the answer of `peer`.
\* It returns 1 once the descriptor is ready (or is not an open descriptor:
\* POLLNVAL), 0 when ms >= 0 has elapsed, and fails when a signal interrupts
\* it (intr tells whether the environment still delivers one).  A negative
\* descriptor is ignored; a negative ms waits without bound.
os_poll(w, pfd, ms, peer, intr) ==
    {[w |-> Logged(w, "poll", pfd), res |-> r] :
         r \in (IF pfd # INVALID_SOCKET /\ (~IsOpen(w, pfd) \/ peer # "silent") THEN {Ok(1)} ELSE {})
               \cup (IF ms >= 0 THEN {Ok(0)} ELSE {})
               \cup (IF intr THEN {Err("interrupted")} ELSE {})}

\* connector::recreate(addr)
recreate(w, o) ==
    UNION {IF ~IsOk(c.res) THEN {[w |-> c.w, res |-> Err(c.res.err)]}
           ELSE {[w |-> w1, res |-> Ok(0)] : w1 \in reset(c.w, o, c.res.val)} :
               c \in create_handle(w)}

\* connector::connect(addr): the blocking connect.
connect(w, o, peer) ==
    UNION {IF ~IsOk(r.res) THEN {r} ELSE os_connect(r.w, r.w.handle[o], peer) :
               r \in recreate(w, o)}

\* int(x): the cast to the machine's int wraps modulo 2^IntBits.
ToInt(x) ==
    LET m == x % (2 ^ IntBits)
    IN  IF m >= 2 ^ (IntBits - 1) THEN m - 2 ^ IntBits ELSE m

\* duration_cast<milliseconds>(t).count(): truncation toward zero.
to_milliseconds(t) == IF t >= 0 THEN t \div 1000 ELSE -((-t) \div 1000)

Unset == [err |-> "unset", val |-> 0]

\* The locals of a connect(addr, timeout) call, and where it stands.
NoCall ==
    [pc |-> "idle", timeout |-> 0, peer |-> "accept", pre |-> INVALID_SOCKET,
     made |-> INVALID_SOCKET, non_blocking |-> FALSE, cres |-> Unset, pfd |-> INVALID_SOCKET,
     ms |-> 0, pres |-> Unset, gres |-> Unset, err |-> NoErr, res |-> Unset, intr |-> 0,
     snb |-> Unset, rnb |-> Unset, faults |-> FALSE, raced |-> FALSE, log |-> <<>>]

\* connect(addr, timeout), lines 611-624: recreate the handle, capture the
\* blocking mode, switch to non-blocking (the result is dropped) and issue
\* ::connect.  Each outcome is the world and the call's locals; snb keeps
\* the result the code drops.
connect_issue(w, o, c) ==
    UNION {
        IF ~IsOk(r.res) THEN {[w |-> r.w, c |-> [c EXCEPT !.pc = "return", !.res = r.res]]}
        ELSE UNION {
            UNION {
                {[w |-> x.w,
                  c |-> [c EXCEPT !.made = r.w.handle[o], !.non_blocking = n.val,
                                  !.snb = y.res, !.cres = x.res, !.res = x.res,
                                  !.pc = IF IsOk(x.res) THEN "restore"
                                         ELSE IF x.res.err \in {"in_progress", "would_block"}
                                         THEN "poll" ELSE "fail"]] :
                     x \in os_connect(y.w, y.w.handle[o], c.peer)} :
                y \in IF ~n.val THEN set_non_blocking(n.w, o, TRUE)
                      ELSE {[w |-> n.w, res |-> Unset]}} :
            n \in is_non_blocking(r.w, o)} :
        r \in recreate(w, o)}

\* lines 639-640: the descriptor and the millisecond count handed to poll.
connect_poll_args(w, o, c) ==
    [c EXCEPT !.pfd = w.handle[o], !.ms = ToInt(to_milliseconds(c.timeout)), !.pc = "inpoll"]

\* The wait that takes an elapsed timeout for readiness (value() >= 0).
connect_polled_lax(c, p) ==
    [c EXCEPT !.pres = p, !.res = p, !.pc = IF IsOk(p) THEN "soerr" ELSE "fail"]

\* lines 641-652, after poll returned p: a positive count goes on to read the
\* pending error, zero is the timeout, a failure is kept.
connect_polled(c, p) ==
    [c EXCEPT !.pres = p,
              !.res = IF IsOk(p) /\ ~(p.val > 0) THEN Err("timed_out") ELSE p,
              !.pc = IF IsOk(p) /\ p.val > 0 THEN "soerr" ELSE "fail"]

\* The call that waits for readiness and never looks at the pending error.
connect_pending_unread(c, g) ==
    [c EXCEPT !.gres = g.res, !.err = g.optval, !.pc = "restore"]

\* lines 646-647 and 655: the pending error replaces res only when
\* get_option succeeded.
connect_pending(c, g) ==
    LET res == IF IsOk(g.res) THEN from_error(g.optval) ELSE c.res
    IN  [c EXCEPT !.gres = g.res, !.err = g.optval, !.res = res,
                  !.pc = IF IsOk(res) THEN "restore" ELSE "fail"]

\* The failure path that returns the error and leaves the handle open.
connect_fail_open(w, o, c) ==
    {[w |-> w, c |-> [c EXCEPT !.pc = "return", !.res = Err(c.res.err)]]}

\* lines 655-658: close() and return the error.
connect_fail(w, o, c) ==
    {[w |-> x.w, c |-> [c EXCEPT !.pc = "return", !.res = Err(c.res.err)]] : x \in socket_close(w, o)}

\* lines 661-664: restore the blocking mode (the result is dropped; rnb
\* keeps it), return none.
connect_restore(w, o, c) ==
    {[w |-> y.w, c |-> [c EXCEPT !.pc = "return", !.res = Ok(0), !.rnb = y.res]] :
         y \in IF ~c.non_blocking THEN set_non_blocking(w, o, FALSE)
               ELSE {[w |-> w, res |-> Unset]}}

\* ------------------------------------------------------------------ the lifecycle scenario

\* The timeouts (microseconds) a caller passes: non-positive ones, short
\* ones, the largest whose millisecond count fits an int, the first that
\* does not.
IntMax == 2 ^ (IntBits - 1) - 1

Timeouts == {-1, 0, 1, 1000, IntMax * 1000 + 999, (IntMax + 1) * 1000}

\* prev is kept for a close(): "close" or "reset" when the operation that
\* returned just before it was that one, on the same owner.  shared tells
\* that, when the operation began, another descriptor referred to the socket
\* of the owner's handle.
NoOp == [op |-> "none", who |-> "", to |-> "", arg |-> INVALID_SOCKET, pre |-> INVALID_SOCKET,
         res |-> Unset, log |-> <<>>, prev |-> "", shared |-> FALSE, call |-> NoCall]

KcIdle == [pc |-> "idle", h |-> INVALID_SOCKET, res |-> Unset, log |-> <<>>]

IoIdle == [pc |-> "off"]

Init ==
    /\ handle = [o \in Owners |-> INVALID_SOCKET]
    /\ file = [d \in FDs |-> 0]
    /\ fl = [f \in FDs |-> {}]
    /\ lsn = {}
    /\ link = {}
    /\ raw = {}
    /\ bad = FALSE
    /\ lastOp = NoOp
    /\ cc = NoCall
    /\ kc = KcIdle
    /\ io = IoIdle

Idle == cc.pc = "idle"

\* An operation of owner o returned x.res in world x.w.
Returned(name, o, n, h, x) ==
    /\ Commit(x.w)
    /\ lastOp' = [NoOp EXCEPT !.op = name, !.who = o, !.to = n, !.arg = h,
                              !.pre = IF o \in Owners THEN handle[o] ELSE INVALID_SOCKET,
                              !.res = x.res, !.log = x.w.log,
                              !.shared = /\ o \in Owners /\ IsOpen(World, handle[o])
                                         /\ \E d \in FDs \ {handle[o]} : file[d] = file[handle[o]],
                              !.prev = IF name = "close" /\ lastOp.who = o
                                          /\ lastOp.op \in {"close", "reset"}
                                       THEN lastOp.op ELSE ""]
    /\ UNCHANGED <<cc, kc, io>>

\* socket::create into a new owner o.
Create(o) ==
    /\ Idle /\ handle[o] = INVALID_SOCKET
    /\ \E x \in socket_create(World, o) : Returned("create", o, "", INVALID_SOCKET, x)

\* o.clone() into a new owner n.
Clone(o, n) ==
    /\ Idle /\ n # o /\ handle[n] = INVALID_SOCKET
    /\ \E x \in clone(World, o, n) : Returned("clone", o, n, INVALID_SOCKET, x)

\* socket::pair into the new owners a and b.
Pair(a, b) ==
    /\ Idle /\ a # b /\ handle[a] = INVALID_SOCKET /\ handle[b] = INVALID_SOCKET
    /\ \E x \in pair(World, a, b) : Returned("pair", a, b, INVALID_SOCKET, x)

\* socket::pair built for a platform without ::socketpair.
PairUnsupported(a, b) ==
    /\ Idle /\ a # b /\ handle[a] = INVALID_SOCKET /\ handle[b] = INVALID_SOCKET
    /\ \E x \in pair_unsupported(World, a, b) :
           Returned("pair_unsupported", a, b, INVALID_SOCKET, x)

\* acc.accept() into a new owner n.
Accept(n) ==
    /\ Idle /\ n # "acc" /\ handle[n] = INVALID_SOCKET
    /\ \E x \in accept(World, "acc", n) : Returned("accept", "acc", n, INVALID_SOCKET, x)

\* acc.open(addr, queSize, reuse)
AcceptorOpen(reuse) ==
    /\ Idle
    /\ \E x \in acceptor_open(World, "acc", reuse) : Returned("open", "acc", reuse, INVALID_SOCKET, x)

\* d = std::move(s)
Move(d, s) ==
    /\ Idle /\ d # s
    /\ \E w \in move_assign(World, d, s) :
           Returned("move", d, s, handle[s], [w |-> w, res |-> Ok(0)])

\* h = o.release(): the caller now holds the raw handle (one at a time).
Release(o) ==
    /\ Idle /\ handle[o] # INVALID_SOCKET /\ raw = {}
    /\ LET r == release(World, o)
       IN  Returned("release", o, "", r.h, [w |-> [r.w EXCEPT !.raw = @ \cup {r.h}], res |-> Ok(0)])

\* o.reset(h), with h the invalid handle, the handle o holds, or a raw handle
\* the caller holds (which o then owns).
Reset(o, h) ==
    /\ Idle /\ h \in {INVALID_SOCKET, handle[o]} \cup raw
    /\ \E w \in reset([World EXCEPT !.raw = @ \ {h}], o, h) :
           Returned("reset", o, "", h, [w |-> w, res |-> Ok(0)])

\* o.close(), also what the destructor of o does.
Close(o) ==
    /\ Idle
    /\ \E x \in socket_close(World, o) : Returned("close", o, "", INVALID_SOCKET, x)

\* socket::close(h) on a raw handle the caller holds.
CloseRaw(h) ==
    /\ Idle /\ h \in raw
    /\ \E x \in socket_close_h([World EXCEPT !.raw = @ \ {h}], h) :
           Returned("close_h", "", "", h, x)

\* conn.connect(addr)
Connect(peer) ==
    /\ Idle
    /\ \E x \in connect(World, "conn", peer) :
           /\ Commit(x.w)
           /\ lastOp' = [NoOp EXCEPT !.op = "connect", !.who = "conn", !.pre = handle["conn"],
                                     !.res = x.res, !.log = x.w.log,
                                     !.call = [NoCall EXCEPT !.peer = peer]]
           /\ UNCHANGED <<cc, kc, io>>

\* A step of connect(addr, timeout) ended in world w with locals c: the call
\* returns when it has reached its return statement.  While a call is in
\* flight no operation is the last that returned.
Step(w, c) ==
    /\ Commit(w)
    /\ LET c1 == [c EXCEPT !.log = w.log]
       IN  IF c.pc = "return"
           THEN /\ cc' = NoCall
                /\ lastOp' = [NoOp EXCEPT !.op = "connect_to", !.who = "conn", !.pre = c.pre,
                                          !.res = c.res, !.log = w.log,
                                          !.call = c1]
           ELSE /\ cc' = c1
                /\ lastOp' = NoOp
    /\ UNCHANGED <<kc, io>>

\* The call that sends only a negative timeout to the blocking connect.
ConnectTo_zero_timed(t, peer, faults) ==
    /\ Idle
    /\ LET c == [NoCall EXCEPT !.timeout = t, !.peer = peer, !.pre = handle["conn"],
                               !.faults = faults]
           w == [World EXCEPT !.faults = faults]
       IN  IF t < 0
           THEN \E x \in connect(w, "conn", peer) : Step(x.w, [c EXCEPT !.pc = "return", !.res = x.res])
           ELSE \E x \in connect_issue(w, "conn", c) : Step(x.w, x.c)

\* conn.connect(addr, timeout): a non-positive timeout is the blocking connect.
ConnectTo(t, peer, faults) ==
    /\ Idle
    /\ LET c == [NoCall EXCEPT !.timeout = t, !.peer = peer, !.pre = handle["conn"],
                               !.faults = faults]
           w == [World EXCEPT !.faults = faults]
       IN  IF t <= 0
           THEN \E x \in connect(w, "conn", peer) : Step(x.w, [c EXCEPT !.pc = "return", !.res = x.res])
           ELSE \E x \in connect_issue(w, "conn", c) : Step(x.w, x.c)

CallWorld == [World EXCEPT !.log = cc.log, !.faults = cc.faults]

PollEnter ==
    /\ cc.pc = "poll"
    /\ Step(CallWorld, connect_poll_args(CallWorld, "conn", cc))

\* The environment delivers at most MaxIntr signals to one call.
PollReturn ==
    /\ cc.pc = "inpoll"
    /\ \E p \in os_poll(CallWorld, cc.pfd, cc.ms, cc.peer, cc.intr < MaxIntr) :
           Step(p.w, connect_polled([cc EXCEPT !.intr = IF IsOk(p.res) THEN @ ELSE @ + 1], p.res))

PendingError ==
    /\ cc.pc = "soerr"
    /\ \E g \in get_option(CallWorld, "conn", cc.peer) : Step(g.w, connect_pending(cc, g))

FailClose ==
    /\ cc.pc = "fail"
    /\ \E x \in connect_fail(CallWorld, "conn", cc) : Step(x.w, x.c)

Restore ==
    /\ cc.pc = "restore"
    /\ \E x \in connect_restore(CallWorld, "conn", cc) : Step(x.w, x.c)

ConnectStep == PollEnter \/ PollReturn \/ PendingError \/ FailClose \/ Restore

\* The lifecycle scenario draws the connects from one peer of each kind.
LifePeers == {"accept", "refused", "silent"}

Next ==
    \/ \E o \in Owners : Create(o)
    \/ \E o, n \in Owners : Clone(o, n)
    \/ \E a, b \in Owners : Pair(a, b)
    \/ \E a, b \in Owners : PairUnsupported(a, b)
    \/ \E n \in Owners : Accept(n)
    \/ \E r \in ReuseArgs : AcceptorOpen(r)
    \/ \E d, s \in Owners : Move(d, s)
    \/ \E o \in Owners : Release(o)
    \/ \E o \in Owners, h \in Handles : Reset(o, h)
    \/ \E o \in Owners : Close(o)
    \/ \E h \in FDs : CloseRaw(h)
    \/ \E p \in LifePeers : Connect(p)
    \/ \E t \in {0, 1000}, p \in LifePeers : ConnectTo(t, p, FALSE)
    \/ ConnectStep

Spec == Init /\ [][Next]_vars

\* ------------------------------------------------------------------ the scenario of the opening operations

\* open() of a datagram socket that returns a failed bind without closing.
datagram_open_unclosed(w, o) ==
    UNION {
        IF ~IsOk(c.res) THEN {[w |-> c.w, res |-> Err(c.res.err)]}
        ELSE UNION {bind(w1, o, "0") : w1 \in reset(c.w, o, c.res.val)} :
            c \in create_handle(w)}

\* datagram_socket::open(addr)
datagram_open(w, o) ==
    UNION {
        IF ~IsOk(c.res) THEN {[w |-> c.w, res |-> Err(c.res.err)]}
        ELSE UNION {
            UNION {IF ~IsOk(b.res) THEN ThenClose({b}, o) ELSE {[w |-> b.w, res |-> Ok(0)]} :
                       b \in bind(w1, o, "0")} :
                w1 \in reset(c.w, o, c.res.val)} :
            c \in create_handle(w)}

\* sock.open(addr), sock a datagram socket.
DatagramOpen ==
    /\ Idle
    /\ \E x \in datagram_open(World, "sock") : Returned("dgram_open", "sock", "", INVALID_SOCKET, x)

\* An acceptor, a connector and a datagram socket are opened, connected,
\* reset and closed in every order, with and without OS faults.
OpenNext ==
    \/ \E r \in ReuseArgs : AcceptorOpen(r)
    \/ DatagramOpen
    \/ \E p \in LifePeers : Connect(p)
    \/ \E t \in {0, 1000}, p \in LifePeers, f \in BOOLEAN : ConnectTo(t, p, f)
    \/ ConnectStep
    \/ \E o \in Owners, h \in Handles : Reset(o, h)
    \/ \E o \in Owners : Close(o)

OpenSpec == Init /\ [][OpenNext]_vars

\* ------------------------------------------------------------------ the scenario of the status flags

\* The status flags the callers set and clear.
FlagNames == {"O_NONBLOCK", "O_ASYNC"}

\* o.set_flag(flag, on)
SetFlag(o, flag, on) ==
    /\ Idle
    /\ \E x \in set_flag(World, o, flag, on) :
           Returned(IF on THEN "set_flag_on" ELSE "set_flag_off", o, flag, INVALID_SOCKET, x)

\* o.set_non_blocking(on)
SetNonBlocking(o, on) ==
    /\ Idle
    /\ \E x \in set_non_blocking(World, o, on) :
           Returned(IF on THEN "set_non_blocking_on" ELSE "set_non_blocking_off", o, "O_NONBLOCK",
                    INVALID_SOCKET, x)

\* o.is_non_blocking(): the answer is kept as the value of the result.
IsNonBlocking(o) ==
    /\ Idle
    /\ \E z \in is_non_blocking(World, o) :
           Returned("is_non_blocking", o, "", INVALID_SOCKET,
                    [w |-> z.w, res |-> Ok(IF z.val THEN 1 ELSE 0)])

\* Sockets are created, cloned and closed, and their flags set, cleared and
\* read, in every order.
FlagNext ==
    \/ \E o \in Owners : Create(o)
    \/ \E o, n \in Owners : Clone(o, n)
    \/ \E o \in Owners : Close(o)
    \/ \E o \in Owners, f \in FlagNames, on \in BOOLEAN : SetFlag(o, f, on)
    \/ \E o \in Owners, on \in BOOLEAN : SetNonBlocking(o, on)
    \/ \E o \in Owners : IsNonBlocking(o)

FlagSpec == Init /\ [][FlagNext]_vars

\* ------------------------------------------------------------------ the connector scenario

\* One connector: connects of every timeout against every peer, with and
\* without OS faults, and close().
ConnNext ==
    \/ \E t \in Timeouts, p \in Peers, f \in BOOLEAN : ConnectTo(t, p, f)
    \/ ConnectStep
    \/ \E p \in Peers : Connect(p)
    \/ Close("conn")

ConnSpec == Init /\ [][ConnNext]_vars

\* ------------------------------------------------------------------ the race scenario

\* Another thread calls conn.close() while a connect may be in flight.  Its
\* steps are the test of handle_ (line 400) and close(release()) (line 401).
KcCheck ==
    /\ kc.pc = "idle"
    /\ kc' = [kc EXCEPT !.pc = IF handle["conn"] # INVALID_SOCKET THEN "release" ELSE "idle",
                        !.res = IF handle["conn"] # INVALID_SOCKET THEN Unset ELSE Ok(0),
                        !.log = <<>>]
    /\ UNCHANGED <<handle, file, fl, lsn, link, raw, bad, lastOp, cc, io>>

KcClose ==
    /\ kc.pc = "release"
    /\ LET r == release(World, "conn")
       IN  \E x \in socket_close_h(r.w, r.h) :
               /\ Commit(x.w)
               /\ kc' = [pc |-> "idle", h |-> r.h, res |-> x.res, log |-> x.w.log]
               /\ cc' = [cc EXCEPT !.raced = @ \/ (cc.pc = "inpoll" /\ r.h # INVALID_SOCKET)]
    /\ UNCHANGED <<lastOp, io>>

RaceNext ==
    \/ \E t \in Timeouts, p \in Peers : ConnectTo(t, p, FALSE)
    \/ ConnectStep
    \/ KcCheck
    \/ KcClose

RaceSpec == Init /\ [][RaceNext]_vars

\* ------------------------------------------------------------------ the stream scenario

MaxN == 3

Bytes == {0, 1}

\* The contents of an unwritten buffer position.
Blank == 2

Buffers == UNION {[1..n -> Bytes] : n \in 0..MaxN}

\* result<T>::value(): the success value; of a result in the error state
\* the extraction is disallowed, and yields the default value or a fault.
value(r) ==
    IF IsOk(r) THEN {[ok |-> TRUE, v |-> r.val]}
    ELSE {[ok |-> TRUE, v |-> 0], [ok |-> FALSE, v |-> 0]}

\* check_res(ret): a negative return of the platform call becomes the error
\* the platform reported last, any other return is the success value.
check_res(ret, errno) == IF ret < 0 THEN Err(errno) ELSE Ok(ret)

\* The ways a transfer call can fail on the connection s: a signal
\* interrupts it, or (on a connection that may break) the peer resets it.
IoErrnos(s) ==
    (IF s.intr < MaxIntr THEN {"interrupted"} ELSE {})
    \cup (IF s.errs THEN {"reset"} ELSE {})

IoFailed(s, e) == IF e = "interrupted" THEN [s EXCEPT !.intr = @ + 1] ELSE s

\* ::send(handle(), buf, n, 0): the transport takes 1..n bytes in order and
\* returns their number, or the call returns -1.
os_send(s, buf) ==
    {[s |-> [s EXCEPT !.chan = @ \o SubSeq(buf, 1, k)], ret |-> k, errno |-> NoErr] :
         k \in 1..Len(buf)}
    \cup {[s |-> IoFailed(s, e), ret |-> -1, errno |-> e] : e \in IoErrnos(s)}

\* ::recv(handle(), buf, n, 0): 1..n of the bytes that have arrived, in
\* order, land at buf and their number is returned; with none arrived it
\* blocks, or returns 0 once the peer has closed its end; or the call
\* returns -1.
os_recv(s, off, n) ==
    {[s |-> [s EXCEPT !.chan = SubSeq(@, k + 1, Len(@)),
                      !.rbuf = [i \in DOMAIN @ |->
                                    IF off < i /\ i <= off + k THEN s.chan[i - off] ELSE @[i]]],
      ret |-> k, errno |-> NoErr] : k \in 1..(IF Len(s.chan) < n THEN Len(s.chan) ELSE n)}
    \cup (IF s.closed /\ s.chan = <<>> THEN {[s |-> s, ret |-> 0, errno |-> NoErr]} ELSE {})
    \cup {[s |-> IoFailed(s, e), ret |-> -1, errno |-> e] : e \in IoErrnos(s)}

\* stream_socket::write(buf, n): one send.
write(s, off, n) ==
    {[s |-> x.s, res |-> check_res(x.ret, x.errno)] :
         x \in os_send(s, SubSeq(s.data, off + 1, off + n))}

\* read() that takes a transfer of no bytes for a failure.
read_needs_bytes(s, off, n) ==
    {[s |-> x.s, res |-> IF x.ret <= 0 THEN Err("reset") ELSE Ok(x.ret)] : x \in os_recv(s, off, n)}

\* stream_socket::read(buf, n): one recv.
read(s, off, n) ==
    {[s |-> x.s, res |-> check_res(x.ret, x.errno)] : x \in os_recv(s, off, n)}

\* One turn of a read_n/write_n loop on the locals t (its nx) for the
\* outcome x of the single call: an error other than interrupted is
\* returned, otherwise nx advances by res.value(); the loop ends at nx >= n.
\* Kept for the claims: the result of the single call (last), the offset and
\* count it was issued with (off, cnt), and whether value() was applied to a
\* result in the error state (misuse).
loop_turn(t, n, x) ==
    LET t1 == [t EXCEPT !.last = x.res, !.off = t.nx, !.cnt = n - t.nx]
        t2 == [t1 EXCEPT !.misuse = @ \/ ~IsOk(x.res)]
    IN  IF ~IsOk(x.res) /\ x.res.err # "interrupted"
        THEN {[s |-> x.s, t |-> [t1 EXCEPT !.pc = "done", !.res = Err(x.res.err)]]}
        ELSE {[s |-> x.s,
               t |-> IF ~v.ok THEN [t2 EXCEPT !.pc = "fault"]
                     ELSE IF t.nx + v.v < n THEN [t2 EXCEPT !.nx = @ + v.v]
                     ELSE [t2 EXCEPT !.nx = @ + v.v, !.pc = "done", !.res = Ok(t.nx + v.v)]] :
                  v \in value(x.res)}

\* write_n that issues every single call for the whole buffer.
write_n_turn_from_start(s) ==
    UNION {loop_turn(s.w, Len(s.data), x) : x \in write(s, 0, Len(s.data))}

\* stream_socket::write_n(buf, n), one turn of its loop.
write_n_turn(s) ==
    UNION {loop_turn(s.w, Len(s.data), x) : x \in write(s, s.w.nx, Len(s.data) - s.w.nx)}

\* read_n whose position is the one the writing thread has reached.
read_n_turn_shared(s) ==
    UNION {loop_turn([s.r EXCEPT !.nx = s.w.nx], Len(s.data), x) :
               x \in read(s, s.w.nx, Len(s.data) - s.w.nx)}

\* stream_socket::read_n(buf, n), one turn of its loop.
read_n_turn(s) ==
    UNION {loop_turn(s.r, Len(s.data), x) : x \in read(s, s.r.nx, Len(s.data) - s.r.nx)}

LoopIdle ==
    [pc |-> "idle", op |-> "", nx |-> 0, res |-> Unset, last |-> Unset, off |-> 0, cnt |-> 0,
     misuse |-> FALSE]

\* The entry of read_n/write_n: nx = 0, and the loop is skipped when n = 0.
loop_enter(n) ==
    IF 0 < n THEN [LoopIdle EXCEPT !.pc = "loop", !.op = "n"]
    ELSE [LoopIdle EXCEPT !.pc = "done", !.op = "n", !.res = Ok(0)]

\* The world of a process that holds no socket.
NoSockets ==
    [handle |-> [o \in Owners |-> INVALID_SOCKET], file |-> [d \in FDs |-> 0],
     fl |-> [f \in FDs |-> {}], lsn |-> {}, link |-> {}, raw |-> {}, bad |-> FALSE,
     log |-> <<>>, faults |-> FALSE]

\* A connected pair of stream sockets, the writer "sock" and the reader
\* "conn", and the bytes the writer is to send.
IOInit ==
    /\ \E x \in pair(NoSockets, "sock", "conn") :
           /\ IsOk(x.res)
           /\ handle = x.w.handle /\ file = x.w.file /\ fl = x.w.fl
           /\ lsn = x.w.lsn /\ link = x.w.link /\ raw = x.w.raw /\ bad = x.w.bad
    /\ lastOp = NoOp
    /\ cc = NoCall
    /\ kc = KcIdle
    /\ \E d \in Buffers :
           io = [pc |-> "on", data |-> d, chan |-> <<>>, rbuf |-> [i \in DOMAIN d |-> Blank],
                 intr |-> 0, errs |-> FALSE, closed |-> FALSE, w |-> LoopIdle, r |-> LoopIdle]

WriteN ==
    /\ io.w.pc = "idle" /\ ~io.closed
    /\ io' = [io EXCEPT !.w = loop_enter(Len(io.data))]
    /\ UNCHANGED <<handle, file, fl, lsn, link, raw, bad, lastOp, cc, kc>>

WriteNTurn ==
    /\ io.w.pc = "loop"
    /\ \E y \in write_n_turn(io) : io' = [y.s EXCEPT !.w = y.t]
    /\ UNCHANGED <<handle, file, fl, lsn, link, raw, bad, lastOp, cc, kc>>

ReadN ==
    /\ io.r.pc = "idle"
    /\ io' = [io EXCEPT !.r = loop_enter(Len(io.data))]
    /\ UNCHANGED <<handle, file, fl, lsn, link, raw, bad, lastOp, cc, kc>>

ReadNTurn ==
    /\ io.r.pc = "loop"
    /\ \E y \in read_n_turn(io) : io' = [y.s EXCEPT !.r = y.t]
    /\ UNCHANGED <<handle, file, fl, lsn, link, raw, bad, lastOp, cc, kc>>

IONext == WriteN \/ WriteNTurn \/ ReadN \/ ReadNTurn

IOSpec == IOInit /\ [][IONext]_vars

\* ------------------------------------------------------------------ the stream scenario with a peer that closes or breaks

\* The concatenation of the byte ranges, in order.
RECURSIVE Concat(_)
Concat(ranges) == IF ranges = <<>> THEN <<>> ELSE Head(ranges) \o Concat(Tail(ranges))

\* The iovec ranges the writer passes: its bytes cut in two at io.cut.
Ranges(s) == <<SubSeq(s.data, 1, s.cut), SubSeq(s.data, s.cut + 1, Len(s.data))>>

\* ::writev(handle(), iov, iovcnt): the transport takes a prefix of the
\* bytes of the first iovcnt ranges, in range order (at least one byte when
\* there is any), and returns its length, or the call returns -1.
os_writev(s, iov, iovcnt) ==
    LET all == Concat(SubSeq(iov, 1, iovcnt))
    IN  {[s |-> [s EXCEPT !.chan = @ \o SubSeq(all, 1, k)], ret |-> k, errno |-> NoErr] :
             k \in IF all = <<>> THEN {0} ELSE 1..Len(all)}
        \cup {[s |-> IoFailed(s, e), ret |-> -1, errno |-> e] : e \in IoErrnos(s)}

\* The vectored write that hands over the ranges last to first.
write_v_reversed(s, ranges) ==
    {[s |-> x.s, res |-> check_res(x.ret, x.errno)] :
         x \in os_writev(s, [i \in DOMAIN ranges |-> ranges[Len(ranges) + 1 - i]], Len(ranges))}

\* stream_socket::write(const std::vector<iovec>& ranges)
write_v(s, ranges) ==
    {[s |-> x.s, res |-> check_res(x.ret, x.errno)] : x \in os_writev(s, ranges, Len(ranges))}

\* As IOInit, with the ranges of a vectored write and a connection that may
\* break.
StreamInit ==
    /\ \E x \in pair(NoSockets, "sock", "conn") :
           /\ IsOk(x.res)
           /\ handle = x.w.handle /\ file = x.w.file /\ fl = x.w.fl
           /\ lsn = x.w.lsn /\ link = x.w.link /\ raw = x.w.raw /\ bad = x.w.bad
    /\ lastOp = NoOp
    /\ cc = NoCall
    /\ kc = KcIdle
    /\ \E d \in Buffers, c \in 0..MaxN, e \in BOOLEAN :
           /\ c <= Len(d)
           /\ io = [pc |-> "on", data |-> d, cut |-> c, chan |-> <<>>,
                    rbuf |-> [i \in DOMAIN d |-> Blank], intr |-> 0, errs |-> e,
                    closed |-> FALSE, w |-> LoopIdle, r |-> LoopIdle]

\* The writer calls write(ranges) once.
WriteV ==
    /\ io.w.pc = "idle" /\ ~io.closed
    /\ \E x \in write_v(io, Ranges(io)) :
           io' = [x.s EXCEPT !.w = [LoopIdle EXCEPT !.pc = "done", !.op = "v", !.res = x.res,
                                                    !.last = x.res]]
    /\ UNCHANGED <<handle, file, fl, lsn, link, raw, bad, lastOp, cc, kc>>

\* The writing end is closed by its owner while no write is running: the
\* reader's peer has closed gracefully.
PeerClose ==
    /\ io.w.pc # "loop" /\ ~io.closed
    /\ \E x \in socket_close(World, "sock") : Commit(x.w)
    /\ io' = [io EXCEPT !.closed = TRUE]
    /\ UNCHANGED <<lastOp, cc, kc>>

StreamNext ==
    \/ WriteN
    \/ WriteNTurn
    \/ WriteV
    \/ ReadN
    \/ ReadNTurn
    \/ PeerClose

StreamSpec == StreamInit /\ [][StreamNext]_vars

\* ------------------------------------------------------------------ the duplex scenario: one socket read and written by two threads

\* The view of the connection from the receiving direction of "sock": the
\* bytes recv takes are the inbound ones (io.inb), the outbound ones (io.chan)
\* are out of its reach.  Applying it twice gives the record back.
Inbound(s) == [s EXCEPT !.chan = s.inb, !.inb = s.chan]

\* The bytes the peer sends: at every position the other byte, so that the
\* two directions never carry the same byte at the same position.
Opposite(d) == [k \in DOMAIN d |-> 1 - d[k]]

\* A connected pair whose end "sock" is to send io.data and to receive the
\* same number of bytes, io.src, which its peer has already sent.
DuplexInit ==
    /\ \E x \in pair(NoSockets, "sock", "conn") :
           /\ IsOk(x.res)
           /\ handle = x.w.handle /\ file = x.w.file /\ fl = x.w.fl
           /\ lsn = x.w.lsn /\ link = x.w.link /\ raw = x.w.raw /\ bad = x.w.bad
    /\ lastOp = NoOp
    /\ cc = NoCall
    /\ kc = KcIdle
    /\ \E d \in Buffers, e \in BOOLEAN :
           /\ io = [pc |-> "on", data |-> d, src |-> Opposite(d), inb |-> Opposite(d),
                    chan |-> <<>>,
                    rbuf |-> [k \in DOMAIN d |-> Blank], intr |-> 0, errs |-> e,
                    closed |-> FALSE, w |-> LoopIdle, r |-> LoopIdle,
                    wtr |-> <<>>, rtr |-> <<>>, ovl |-> FALSE]

\* The writing thread calls write(buf, n) on "sock": one send.
DxWrite ==
    /\ io.w.pc = "idle" /\ 0 < Len(io.data)
    /\ \E x \in write(io, 0, Len(io.data)) :
           io' = [x.s EXCEPT !.w = [LoopIdle EXCEPT !.pc = "done", !.op = "1", !.res = x.res,
                                                    !.last = x.res],
                             !.wtr = <<x.res>>]
    /\ UNCHANGED <<handle, file, fl, lsn, link, raw, bad, lastOp, cc, kc>>

\* One turn of the writing thread's write_n loop; wtr keeps the results of
\* its single calls, ovl that a turn was taken while the other thread was
\* between two turns of its own loop.
DxWriteNTurn ==
    /\ io.w.pc = "loop"
    /\ \E y \in write_n_turn(io) : io' = [y.s EXCEPT !.w = y.t, !.wtr = Append(@, y.t.last),
                                                !.ovl = @ \/ (io.r.pc = "loop" /\ io.rtr # <<>>)]
    /\ UNCHANGED <<handle, file, fl, lsn, link, raw, bad, lastOp, cc, kc>>

\* The reading thread calls read(buf, n) on "sock": one recv.
DxRead ==
    /\ io.r.pc = "idle" /\ 0 < Len(io.data)
    /\ \E x \in read(Inbound(io), 0, Len(io.data)) :
           io' = [Inbound(x.s) EXCEPT !.r = [LoopIdle EXCEPT !.pc = "done", !.op = "1",
                                                             !.res = x.res, !.last = x.res],
                                      !.rtr = <<x.res>>]
    /\ UNCHANGED <<handle, file, fl, lsn, link, raw, bad, lastOp, cc, kc>>

\* One turn of the reading thread's read_n loop; rtr keeps the results of
\* its single calls.
DxReadNTurn ==
    /\ io.r.pc = "loop"
    /\ \E y \in read_n_turn(Inbound(io)) :
           io' = [Inbound(y.s) EXCEPT !.r = y.t, !.rtr = Append(@, y.t.last),
                                      !.ovl = @ \/ (io.w.pc = "loop" /\ io.wtr # <<>>)]
    /\ UNCHANGED <<handle, file, fl, lsn, link, raw, bad, lastOp, cc, kc>>

DuplexNext ==
    \/ WriteN
    \/ DxWrite
    \/ DxWriteNTurn
    \/ ReadN
    \/ DxRead
    \/ DxReadNTurn

DuplexSpec == DuplexInit /\ [][DuplexNext]_vars

\* ------------------------------------------------------------------ durations

\* microseconds per second: the ratio of duration_cast<seconds>.
UsecPerSec == 1000000

\* duration_cast<seconds>(dur).count(): truncation toward zero.
to_seconds(d) == IF d >= 0 THEN d \div UsecPerSec ELSE -((-d) \div UsecPerSec)

\* The builds of to_timeval: tv_sec is a long (of the width of int) under
\* _WIN32 and a time_t (of the width of the duration's count) otherwise.
Builds == {"win32", "posix"}

\* to_timeval(dur)
to_timeval(d, build) ==
    LET sec == to_seconds(d)
    IN  [tv_sec |-> IF build = "win32" THEN ToInt(sec) ELSE sec,
         tv_usec |-> d - sec * UsecPerSec]

\* The durations converted: whole seconds up to past the largest long, with
\* no, one and the most microseconds beyond them.
Durations == {sec * UsecPerSec + u : sec \in 0..(IntMax + 2), u \in {0, 1, UsecPerSec - 1}}

\* A caller holds a duration; nothing else exists.
TvInit ==
    /\ handle = NoSockets.handle /\ file = NoSockets.file /\ fl = NoSockets.fl
    /\ lsn = {} /\ link = {} /\ raw = {} /\ bad = FALSE
    /\ lastOp = NoOp
    /\ cc = NoCall
    /\ kc = KcIdle
    /\ \E d \in Durations, b \in Builds :
           io = [pc |-> "dur", d |-> d, build |-> b, tv |-> [tv_sec |-> 0, tv_usec |-> 0]]

\* tv = to_timeval(d)
ToTimeval ==
    /\ io.pc = "dur"
    /\ io' = [io EXCEPT !.pc = "tv", !.tv = to_timeval(io.d, io.build)]
    /\ UNCHANGED <<handle, file, fl, lsn, link, raw, bad, lastOp, cc, kc>>

TvNext == ToTimeval

TvSpec == TvInit /\ [][TvNext]_vars

\* ------------------------------------------------------------------ claims: handle lifecycle

Valid(o) == handle[o] # INVALID_SOCKET

\* C1: in every state reachable by create, accept, pair, clone, move, reset,
\* close, acceptor::open and connect, no two owners hold the same valid
\* descriptor, and every valid handle an owner holds is open in the OS.
C1_ExclusiveOpenHandles ==
    \A o \in Owners :
        Valid(o) =>
            /\ handle[o] \in FDs /\ file[handle[o]] # 0
            /\ \A p \in Owners \ {o} : handle[p] # handle[o]

\* Two owners hold descriptors of one socket (after a clone), each its own.
C1_Witness ==
    \E o, p \in Owners :
        /\ o # p /\ Valid(o) /\ Valid(p)
        /\ file[handle[o]] = file[handle[p]]
        /\ lastOp.op = "clone" /\ lastOp.who = o /\ lastOp.to = p /\ IsOk(lastOp.res)

\* C2: close() is idempotent.  After close() the owner's handle is
\* INVALID_SOCKET whatever the OS reported; on an invalid handle it returns
\* success without any OS call; on a valid one it issues exactly one ::close,
\* of that handle; a close() right after a close() of the same owner returns
\* success and releases nothing.
C2_CloseIdempotent ==
    lastOp.op = "close" =>
        /\ handle[lastOp.who] = INVALID_SOCKET
        /\ lastOp.pre = INVALID_SOCKET => IsOk(lastOp.res) /\ lastOp.log = <<>>
        /\ lastOp.pre # INVALID_SOCKET => lastOp.log = << <<"close", lastOp.pre>> >>
        /\ lastOp.prev = "close" => IsOk(lastOp.res) /\ lastOp.log = <<>>
        /\ ~bad

\* The second of two consecutive close() calls has returned.
C2_Witness == lastOp.op = "close" /\ lastOp.prev = "close"

\* The first close() returned the error the OS reported on release.
C2_WitnessError ==
    lastOp.op = "close" /\ lastOp.pre # INVALID_SOCKET /\ ~IsOk(lastOp.res)

\* Every open descriptor is held: by an owner or, as a raw handle, by the caller.
Held(d) == d \in raw \/ \E o \in Owners : handle[o] = d

\* C3: reset(h) on an owner holding A closes A exactly once when A is valid
\* and h # A, closes nothing when h = A, and leaves h the owned handle; a
\* close() after it closes only h; no descriptor is closed twice and none is
\* left open without a holder.
C3_ResetClosesOld ==
    /\ lastOp.op = "reset" =>
           /\ handle[lastOp.who] = lastOp.arg
           /\ lastOp.log = IF lastOp.pre # INVALID_SOCKET /\ lastOp.arg # lastOp.pre
                           THEN << <<"close", lastOp.pre>> >> ELSE <<>>
    /\ lastOp.op = "close" /\ lastOp.prev = "reset" =>
           lastOp.log = IF lastOp.pre # INVALID_SOCKET THEN << <<"close", lastOp.pre>> >> ELSE <<>>
    /\ ~bad
    /\ \A d \in FDs : file[d] # 0 => Held(d)

\* reset(h) replaced a valid handle A by another valid handle h.
C3_Witness ==
    /\ lastOp.op = "reset" /\ lastOp.pre # INVALID_SOCKET /\ lastOp.arg # INVALID_SOCKET
    /\ lastOp.arg # lastOp.pre

\* ------------------------------------------------------------------ claims: connect with timeout

\* connect(addr, timeout) with timeout > 0 has returned.
ReturnedTo == lastOp.op = "connect_to" /\ lastOp.call.timeout > 0

Call == lastOp.call

InProgress(c) == c.cres.err \in {"in_progress", "would_block"}

\* The descriptor made for the call was closed by it, once, and is not open.
MadeClosed ==
    /\ handle["conn"] = INVALID_SOCKET
    /\ file[Call.made] = 0
    /\ Cardinality({i \in DOMAIN lastOp.log : lastOp.log[i] = <<"close", Call.made>>}) = 1

\* C5: whenever connect(addr, timeout), timeout > 0, returns an error after
\* the new handle was created, the connector's handle is INVALID_SOCKET and
\* the descriptor created for the attempt is closed.
C5_FailureClosesHandle ==
    ReturnedTo /\ ~IsOk(lastOp.res) /\ Call.made # INVALID_SOCKET => MadeClosed

\* The call failed by a timeout of the readiness wait.
C5_Witness ==
    /\ ReturnedTo /\ ~IsOk(lastOp.res) /\ Call.made # INVALID_SOCKET
    /\ IsOk(Call.pres) /\ Call.pres.val = 0

\* C6: a connect(addr, timeout), timeout > 0, whose ::connect reported
\* in-progress/would-block returns success only if the wait reported
\* readiness and the pending error was retrieved and is zero; if the
\* retrieval fails or the pending error is non-zero it returns an error.
C6_SuccessOnlyWithZeroPendingError ==
    ReturnedTo /\ InProgress(Call) =>
        /\ IsOk(lastOp.res) =>
               IsOk(Call.pres) /\ Call.pres.val > 0 /\ IsOk(Call.gres) /\ Call.err = NoErr
        /\ Call.gres # Unset /\ (~IsOk(Call.gres) \/ Call.err # NoErr) => ~IsOk(lastOp.res)

\* C7: when another thread's close() releases the connector's handle while
\* connect(addr, timeout) is in its readiness wait, the connect returns an
\* error, the connector ends with handle INVALID_SOCKET and the descriptor
\* is released exactly once.
C7_CloseDuringWait ==
    ReturnedTo /\ Call.raced /\ kc.pc = "idle" =>
        /\ ~IsOk(lastOp.res)
        /\ handle["conn"] = INVALID_SOCKET
        /\ file[Call.made] = 0
        /\ ~bad

\* The OS itself reported timed_out for the connection.
OsTimedOut(c) == c.cres.err = "timed_out" \/ (IsOk(c.gres) /\ c.err = "timed_out")

WaitElapsed(c) == InProgress(c) /\ IsOk(c.pres) /\ c.pres.val = 0

\* C8 as stated: the call returns timed_out if and only if ::connect reported
\* in-progress/would-block and the wait elapsed with no descriptor ready.
C8_TimedOutIffWaitElapsed ==
    ReturnedTo /\ Call.made # INVALID_SOCKET =>
        (lastOp.res.err = "timed_out" <=> WaitElapsed(Call))

\* C8, amended: the call returns timed_out if and only if the wait elapsed
\* with no descriptor ready or the OS reported timed_out for the connection
\* (by ::connect or as the pending error); a refused or unreachable outcome
\* is returned as itself, and an elapsed wait always as timed_out.
C8_TimedOutIffWaitElapsedOrOsTimedOut ==
    ReturnedTo /\ Call.made # INVALID_SOCKET =>
        /\ lastOp.res.err = "timed_out" <=> (WaitElapsed(Call) \/ OsTimedOut(Call))
        /\ \A e \in {"refused", "unreachable"} :
               (Call.cres.err = e \/ (IsOk(Call.gres) /\ Call.err = e)) => lastOp.res.err = e

\* The wait elapsed and the call returned timed_out.
C8_Witness == ReturnedTo /\ WaitElapsed(Call) /\ lastOp.res.err = "timed_out"

\* C9: connect(addr, timeout), timeout > 0, against a peer that never
\* completes or refuses never waits without bound (the wait handed to poll
\* is finite), and what it returns is the timed_out error.
C9_SilentPeerTimesOut ==
    /\ cc.pc = "inpoll" /\ cc.peer = "silent" => cc.ms >= 0
    /\ ReturnedTo /\ Call.peer = "silent" /\ Call.made # INVALID_SOCKET =>
           lastOp.res = Err("timed_out")

\* C10: when the OS reports that the endpoint refused the connection, by the
\* error of ::connect or by a non-zero pending error read after readiness,
\* connect(addr, timeout) returns exactly that error and has closed the handle.
C10_RefusalReturnedAndClosed ==
    ReturnedTo /\ Call.made # INVALID_SOCKET =>
        /\ ~IsOk(Call.cres) /\ ~InProgress(Call) => lastOp.res = Err(Call.cres.err) /\ MadeClosed
        /\ IsOk(Call.gres) /\ Call.err # NoErr => lastOp.res = Err(Call.err) /\ MadeClosed

\* The refusal was read as the pending error after the wait reported readiness.
C10_Witness ==
    /\ ReturnedTo /\ IsOk(Call.pres) /\ Call.pres.val > 0 /\ IsOk(Call.gres)
    /\ Call.err = "refused" /\ lastOp.res = Err("refused")

\* ------------------------------------------------------------------ claims: stream I/O

\* C4: for every N >= 0, every fragmentation of the single transfers and any
\* interleaved interrupted errors, write_n of N bytes on one end of a live
\* connected pair and read_n of N bytes on the other both return success N
\* and the reader's buffer equals the writer's bytes in order.
C4_RoundTrip ==
    /\ io.w.pc # "fault" /\ io.r.pc # "fault"
    /\ io.w.pc = "done" => io.w.res = Ok(Len(io.data))
    /\ io.r.pc = "done" => io.r.res = Ok(Len(io.data)) /\ io.rbuf = io.data

\* ------------------------------------------------------------------ claims: connector contract

\* C11: for every timeout > 0 the millisecond count handed to poll by
\* connect(addr, timeout) is the timeout truncated to whole milliseconds,
\* and it is never negative.
C11_PollWaitIsTruncatedTimeout ==
    cc.pc = "inpoll" => cc.ms = to_milliseconds(cc.timeout) /\ cc.ms >= 0

\* C12: on every successful return of connect(addr, timeout), timeout > 0,
\* the socket's blocking mode equals the mode captured at the start of the
\* attempt.
C12_BlockingModeRestored ==
    ReturnedTo /\ IsOk(lastOp.res) /\ IsOpen(World, handle["conn"]) =>
        (("O_NONBLOCK" \in fl[file[handle["conn"]]]) <=> Call.non_blocking)

\* The OS calls of a blocking connect: no flag change, no wait, no option read.
BlockingCalls == {"socket", "close", "connect"}

\* C13: connect(addr, timeout) with timeout <= 0 is connect(addr): from the
\* same state it returns a result and leaves a state that connect(addr)
\* produces for the same peer, and it makes no blocking-mode change and no
\* readiness wait.
C13_NonPositiveTimeoutIsBlockingConnect ==
    [][lastOp'.op = "connect_to" /\ lastOp'.call.timeout <= 0 =>
           /\ cc.pc = "idle"
           /\ \E x \in connect([World EXCEPT !.faults = lastOp'.call.faults], "conn",
                               lastOp'.call.peer) :
                  /\ lastOp'.res = x.res /\ lastOp'.log = x.w.log
                  /\ handle' = x.w.handle /\ file' = x.w.file /\ fl' = x.w.fl
                  /\ lsn' = x.w.lsn /\ link' = x.w.link /\ raw' = x.w.raw /\ bad' = x.w.bad
           /\ \A i \in DOMAIN lastOp'.log : lastOp'.log[i][1] \in BlockingCalls]_vars

\* connect(addr, 0) returned success.
C13_Witness ==
    lastOp.op = "connect_to" /\ lastOp.call.timeout = 0 /\ IsOk(lastOp.res)

\* C14: after any connect call returns, the descriptor the connector held
\* before the call is no longer held by it and has been closed, on every
\* exit path.
C14_PreviousHandleDiscarded ==
    lastOp.op \in {"connect", "connect_to"} /\ lastOp.pre # INVALID_SOCKET =>
        handle["conn"] # lastOp.pre /\ file[lastOp.pre] = 0

\* C15: after connect(addr) returns, the connector holds an open handle if
\* and only if the call returned success.
C15_BlockingConnectOpenIffSuccess ==
    lastOp.op = "connect" =>
        (handle["conn"] # INVALID_SOCKET /\ IsOpen(World, handle["conn"]) <=> IsOk(lastOp.res))

\* ------------------------------------------------------------------ claims: acceptor, pair, clone

\* The names of the OS calls an operation made.
Called(op) == {op.log[i][1] : i \in DOMAIN op.log}

\* The descriptors an operation obtained from or handed to the OS.
Touched(op) == {op.log[i][2] : i \in DOMAIN op.log} \ {INVALID_SOCKET}

\* C16: acceptor::open on an acceptor that is already open returns success,
\* makes no OS call (no create, bind or listen) and leaves the owned handle
\* and the rest of the state unchanged, for every reuse argument.
C16_OpenOnOpenIsNoOp ==
    [][lastOp'.op = "open" /\ handle["acc"] # INVALID_SOCKET =>
           /\ IsOk(lastOp'.res)
           /\ lastOp'.log = <<>>
           /\ UNCHANGED <<handle, file, fl, lsn, link, raw, bad>>]_vars

\* open() with an unsupported reuse argument returned on an open acceptor.
C16_Witness ==
    /\ lastOp.op = "open" /\ lastOp.pre # INVALID_SOCKET /\ lastOp.to = "SO_KEEPALIVE"
    /\ IsOk(lastOp.res) /\ handle["acc"] = lastOp.pre

Unsupported(reuse) == reuse \notin {"0", "SO_REUSEADDR", "SO_REUSEPORT"}

\* C17: socket::bind with a non-zero reuse option the platform does not
\* support returns invalid_argument and calls neither setsockopt nor bind;
\* acceptor::open on a closed acceptor, having created its handle, returns
\* that error with no option set and no bind, and leaves the acceptor not
\* open (the created descriptor is closed).
C17_UnsupportedReuseRejected ==
    /\ \A o \in Owners, r \in ReuseArgs :
           Unsupported(r) => bind(World, o, r) = {[w |-> World, res |-> Err("invalid_argument")]}
    /\ /\ lastOp.op = "open" /\ lastOp.pre = INVALID_SOCKET /\ Unsupported(lastOp.to)
       /\ Touched(lastOp) # {}
       => /\ lastOp.res = Err("invalid_argument")
          /\ Called(lastOp) \cap {"setsockopt", "bind", "listen"} = {}
          /\ handle["acc"] = INVALID_SOCKET
          /\ \A d \in Touched(lastOp) : file[d] = 0

\* open() created a handle and rejected the reuse argument.
C17_Witness ==
    /\ lastOp.op = "open" /\ lastOp.pre = INVALID_SOCKET /\ Unsupported(lastOp.to)
    /\ Touched(lastOp) # {} /\ lastOp.res = Err("invalid_argument")

\* C18: a successful accept gives the new owner a valid, open, newly made
\* descriptor different from the listener's; accept leaves the listener's
\* handle, its descriptor and its listening state unchanged, and a failed
\* accept creates no handle and no descriptor.
C18_AcceptFrame ==
    [][lastOp'.op = "accept" =>
           LET n == lastOp'.to
               h == handle["acc"]
           IN  /\ handle'["acc"] = h
               /\ IsOpen(World, h) => file'[h] = file[h] /\ (file[h] \in lsn <=> file[h] \in lsn')
               /\ \A o \in Owners \ {n} : handle'[o] = handle[o]
               /\ IF IsOk(lastOp'.res)
                  THEN /\ handle'[n] \in FDs /\ handle'[n] # h
                       /\ file[handle'[n]] = 0 /\ file'[handle'[n]] # 0
                       /\ file'[handle'[n]] # file'[h]
                  ELSE handle' = handle /\ file' = file]_vars

\* accept() returned a new owner.
C18_Witness ==
    /\ lastOp.op = "accept" /\ IsOk(lastOp.res)
    /\ handle[lastOp.to] \in FDs /\ handle["acc"] \in FDs /\ handle[lastOp.to] # handle["acc"]

\* C19: pair returns success with two owners holding two distinct open
\* descriptors of two sockets connected to each other, or an error with no
\* owner and no descriptor made; built without a native pair primitive it
\* returns not-supported and makes no OS call.
C19_PairAllOrNothing ==
    [][/\ lastOp'.op = "pair" =>
              LET a == lastOp'.who
                  b == lastOp'.to
              IN  IF IsOk(lastOp'.res)
                  THEN /\ handle'[a] \in FDs /\ handle'[b] \in FDs /\ handle'[a] # handle'[b]
                       /\ file[handle'[a]] = 0 /\ file[handle'[b]] = 0
                       /\ file'[handle'[a]] # 0 /\ file'[handle'[b]] # 0
                       /\ {file'[handle'[a]], file'[handle'[b]]} \in link'
                       /\ Cardinality({file'[handle'[a]], file'[handle'[b]]}) = 2
                  ELSE handle' = handle /\ file' = file /\ link' = link
       /\ lastOp'.op = "pair_unsupported" =>
              /\ lastOp'.res = Err("function_not_supported") /\ lastOp'.log = <<>>
              /\ UNCHANGED <<handle, file, fl, lsn, link, raw, bad>>]_vars

\* pair() returned two connected owners.
C19_Witness ==
    /\ lastOp.op = "pair" /\ IsOk(lastOp.res)
    /\ {file[handle[lastOp.who]], file[handle[lastOp.to]]} \in link

\* C20: a successful clone gives the new owner an open descriptor different
\* from the original's that refers to the same socket; a failed clone
\* returns an error and changes nothing; closing one owner leaves every
\* other owner's handle as it was and open at the OS level.
C20_CloneIndependent ==
    [][/\ lastOp'.op = "clone" =>
              LET o == lastOp'.who
                  n == lastOp'.to
              IN  IF IsOk(lastOp'.res)
                  THEN /\ IsOpen(World, handle[o])
                       /\ handle'[o] = handle[o] /\ file'[handle[o]] = file[handle[o]]
                       /\ handle'[n] \in FDs /\ handle'[n] # handle[o]
                       /\ file[handle'[n]] = 0
                       /\ file'[handle'[n]] # 0 /\ file'[handle'[n]] = file[handle[o]]
                  ELSE UNCHANGED <<handle, file, fl, lsn, link, raw, bad>>
       /\ lastOp'.op = "close" =>
              \A p \in Owners \ {lastOp'.who} :
                  /\ handle'[p] = handle[p]
                  /\ IsOpen(World, handle[p]) =>
                         file'[handle[p]] = file[handle[p]] /\ fl'[file[handle[p]]] = fl[file[handle[p]]]]_vars

\* One of two owners of the same socket was closed and the other is open.
C20_Witness ==
    /\ lastOp.op = "close" /\ lastOp.shared /\ handle[lastOp.who] = INVALID_SOCKET
    /\ \E p \in Owners : IsOpen(World, handle[p])

\* ------------------------------------------------------------------ claims: stream loops and transfers

\* The read_n/write_n calls made so far.
NLoops == {t \in {io.w, io.r} : t.op = "n"}

\* C21: read_n and write_n never return the interrupted error; after an
\* interrupted single call the loop goes on with the same offset and
\* remaining count; after any other error of a single call it has returned
\* that error, without the count of bytes already moved.
C21_InterruptedRetriedOthersReturned ==
    \A t \in NLoops :
        /\ t.res.err # "interrupted"
        /\ t.last.err = "interrupted" =>
               t.pc = "loop" /\ t.nx = t.off /\ Len(io.data) - t.nx = t.cnt
        /\ t.last # Unset /\ ~IsOk(t.last) /\ t.last.err # "interrupted" =>
               t.pc = "done" /\ t.res = Err(t.last.err)

\* C22: no operation extracts the success value of a result that is in the
\* error state: read_n and write_n never apply value() to a failed single
\* call.
C22_NoValueOfFailedResult ==
    \A t \in NLoops : ~t.misuse

\* C23: read makes exactly one receive call and its result is that call's:
\* an error if and only if the call returned a failure, success with the
\* count otherwise (0 at a graceful close); and a read never changes the
\* handles or the descriptor table.
C23_ReadIsOneRecv ==
    /\ [](io.r.pc = "loop" =>
             LET off == io.r.nx
                 n == Len(io.data) - io.r.nx
                 Same(x, y) == /\ x.s = y.s
                               /\ IsOk(x.res) <=> y.ret >= 0
                               /\ y.ret >= 0 => x.res = Ok(y.ret)
                               /\ y.ret < 0 => x.res = Err(y.errno)
             IN  /\ \A x \in read(io, off, n) : \E y \in os_recv(io, off, n) : Same(x, y)
                 /\ \A y \in os_recv(io, off, n) : \E x \in read(io, off, n) : Same(x, y))
    /\ [][io'.r # io.r => handle' = handle /\ file' = file]_vars

\* A read returned success with 0 bytes after the peer closed.
C23_Witness == io.closed /\ io.r.last = Ok(0)

\* What the reader has taken so far, followed by what is in flight.
Delivered == SubSeq(io.rbuf, 1, io.r.nx) \o io.chan

\* C24: a vectored write delivers to the peer a prefix of the concatenation
\* of its ranges, in range order, and returns the length of that prefix;
\* when the whole was accepted a peer that reads it all has read exactly
\* the concatenation.
C24_VectoredWriteIsConcatenation ==
    io.w.op = "v" /\ io.w.pc = "done" =>
        LET all == Concat(Ranges(io))
        IN  /\ IsOk(io.w.res) =>
                   /\ io.w.res.val <= Len(all)
                   /\ Delivered = SubSeq(all, 1, io.w.res.val)
            /\ ~IsOk(io.w.res) => Delivered = <<>>
            /\ io.w.res = Ok(Len(all)) /\ io.r.pc = "done" /\ IsOk(io.r.res) => io.rbuf = all

\* Two non-empty ranges were written whole and read whole by the peer.
C24_Witness ==
    /\ io.w.op = "v" /\ io.w.res = Ok(Len(io.data)) /\ 0 < io.cut /\ io.cut < Len(io.data)
    /\ io.r.pc = "done" /\ io.r.res = Ok(Len(io.data)) /\ io.rbuf = io.data

\* C30: read_n(buf, N), N > 0, returns once the peer has closed after
\* sending fewer than N bytes: when everything sent has been read, the turn
\* of the loop whose read returns success with 0 bytes ends the loop (every
\* further read would return the same, so a loop that goes on spins forever).
C30_ReadNReturnsAtClose ==
    io.r.pc = "loop" /\ io.closed /\ io.chan = <<>> =>
        \A x \in read(io, io.r.nx, Len(io.data) - io.r.nx) :
            IsOk(x.res) => \A y \in loop_turn(io.r, Len(io.data), x) : y.t.pc = "done"

\* ------------------------------------------------------------------ claims: errors, moves, results

\* C25: no OS error inside connect(addr, timeout) is swallowed: when
\* switching to non-blocking mode before ::connect fails, or restoring the
\* blocking mode after a successful connect fails, connect returns that error.
C25_ModeSwitchErrorsReturned ==
    ReturnedTo =>
        /\ Call.snb # Unset /\ ~IsOk(Call.snb) => lastOp.res = Err(Call.snb.err)
        /\ Call.rnb # Unset /\ ~IsOk(Call.rnb) => lastOp.res = Err(Call.rnb.err)

\* C26: a default-constructed socket holds INVALID_SOCKET and is not open;
\* a move leaves the source with INVALID_SOCKET (not open) and the
\* destination with the source's handle, open exactly when the source was,
\* after the destination has released (closed) what it held.
C26_MoveTransfersOwnership ==
    /\ \A o \in Owners : handle[o] = INVALID_SOCKET /\ ~is_open(World, o)
    /\ [][lastOp'.op = "move" =>
              LET d == lastOp'.who
                  src == lastOp'.to
              IN  /\ handle'[src] = INVALID_SOCKET
                  /\ handle'[d] = handle[src]
                  /\ IsOpen(World, handle[src]) <=>
                         (handle'[d] \in FDs /\ file'[handle'[d]] # 0)
                  /\ handle[d] # INVALID_SOCKET /\ handle[d] # handle[src] =>
                         file'[handle[d]] = 0
                  /\ \A o \in Owners \ {d, src} : handle'[o] = handle[o]]_vars

\* An open source was moved into a destination that held another descriptor.
C26_Witness ==
    /\ lastOp.op = "move" /\ lastOp.arg # INVALID_SOCKET /\ lastOp.pre # INVALID_SOCKET
    /\ lastOp.pre # lastOp.arg
    /\ handle[lastOp.who] = lastOp.arg /\ handle[lastOp.to] = INVALID_SOCKET
    /\ file[lastOp.arg] # 0 /\ file[lastOp.pre] = 0

\* C28: a result is truthy exactly when it holds no error: get_option
\* returns a truthy result exactly when ::getsockopt succeeded (same effect
\* on the OS, same option value), a result built from the error code 0 is a
\* success and one built from any other code is not, and connect takes a
\* retrieved pending error of 0 as success.
C28_TruthyIffNoError ==
    /\ \A e \in ConnErrs \cup {NoErr} : IsOk(from_error(e)) <=> e = NoErr
    /\ cc.pc = "soerr" =>
           LET os == os_getsockopt(CallWorld, handle["conn"], cc.peer)
               go == get_option(CallWorld, "conn", cc.peer)
               Same(x, g) == /\ x.w = g.w
                             /\ x.optval = g.optval
                             /\ IsOk(x.res) <=> IsOk(g.res)
           IN  /\ \A g \in os : \E x \in go : Same(x, g)
               /\ \A x \in go : \E g \in os : Same(x, g)
    /\ cc.pc \in {"restore", "fail"} /\ cc.gres # Unset =>
           /\ IsOk(cc.gres) /\ cc.err = NoErr => IsOk(cc.res) /\ cc.pc = "restore"
           /\ IsOk(cc.gres) /\ cc.err # NoErr => ~IsOk(cc.res) /\ cc.pc = "fail"

\* ::getsockopt failed during a connect and get_option returned a falsy result.
C28_Witness ==
    /\ cc.pc = "restore" /\ cc.gres = Err("nobufs")
    /\ cc.log # <<>> /\ cc.log[Len(cc.log)] = <<"getsockopt", handle["conn"]>>

\* ------------------------------------------------------------------ claims: two threads on one socket

\* The locals a read_n/write_n of n bytes can have when it runs alone from
\* the locals t and its single calls return the results tr, in order.
RECURSIVE Alone(_, _, _)
Alone(t, n, tr) ==
    IF tr = <<>> THEN {t}
    ELSE IF t.pc # "loop" THEN {}
    ELSE UNION {Alone(y.t, n, Tail(tr)) : y \in loop_turn(t, n, [s |-> <<>>, res |-> Head(tr)])}

\* What the thread with the locals t and the single-call results tr has
\* returned or reached is what the same operation reaches alone.
AsAlone(t, tr) ==
    CASE t.op = "n" -> t \in Alone(loop_enter(Len(io.data)), Len(io.data), tr)
      [] t.op = "1" -> t.pc = "done" /\ tr = <<t.res>>
      [] OTHER -> tr = <<>>

\* The bytes the single calls with the results tr have moved.
RECURSIVE Moved(_)
Moved(tr) ==
    IF tr = <<>> THEN 0 ELSE (IF IsOk(Head(tr)) THEN Head(tr).val ELSE 0) + Moved(Tail(tr))

C31_CountWithinBounds ==
    LET N == Len(io.data)
    IN  /\ \A t \in NLoops :
               /\ 0 <= t.nx /\ t.nx <= N
               /\ t.last # Unset => t.off <= t.nx /\ t.off + t.cnt = N /\ 0 < t.cnt
               /\ IsOk(t.last) => t.nx = t.off + t.last.val /\ t.last.val <= t.cnt
               /\ t.pc = "done" /\ IsOk(t.res) => t.res = Ok(N) /\ t.nx = N
               /\ N = 0 => t.pc = "done" /\ t.res = Ok(0) /\ t.last = Unset /\ io.chan = <<>>
        /\ io.w.op = "n" => Delivered = SubSeq(io.data, 1, io.w.nx)
        /\ io.r.op = "n" =>
               /\ \A k \in DOMAIN io.rbuf : k <= io.r.nx <=> io.rbuf[k] # Blank
               /\ \A k \in 1..io.r.nx : io.rbuf[k] = io.data[k]

\* A write_n of the largest buffer returned N after more than one single
\* call, the last issued at a positive offset.
C31_Witness ==
    /\ io.w.op = "n" /\ Len(io.data) = MaxN /\ io.w.res = Ok(MaxN)
    /\ 0 < io.w.off /\ io.w.off + io.w.cnt = MaxN

\* The descriptors the last operation obtained from the OS.
Obtained == {lastOp.log[i][2] : i \in {j \in DOMAIN lastOp.log : lastOp.log[j][1] = "socket"}}
                \ {INVALID_SOCKET}

\* C32: after any sequence of acceptor::open, datagram_socket::open, connect,
\* reset and close, every descriptor that is open is held by exactly one
\* owner (also between the steps of a connect in flight); and when an open
\* has failed after it had created its descriptor (at bind or listen), that
\* descriptor is closed and the owner is not open.
C32_NoDescriptorLeaks ==
    /\ \A d \in FDs : file[d] # 0 => Cardinality({o \in Owners : handle[o] = d}) = 1
    /\ lastOp.op \in {"open", "dgram_open"} /\ ~IsOk(lastOp.res) /\ Obtained # {} =>
           /\ handle[lastOp.who] = INVALID_SOCKET
           /\ \A d \in Obtained : file[d] = 0

\* A datagram socket's open failed at bind while the other descriptor was in use.
C32_Witness ==
    /\ lastOp.op = "dgram_open" /\ ~IsOk(lastOp.res) /\ Obtained # {}
    /\ \E i \in DOMAIN lastOp.log : lastOp.log[i][1] = "bind"
    /\ \E d \in FDs : file[d] # 0

\* The OS calls an outcome has made, by name.
Calls(x) == [i \in DOMAIN x.w.log |-> x.w.log[i][1]]

C34_ToTimevalExact ==
    io.pc = "tv" /\ io.d >= 0 =>
        /\ 0 <= io.tv.tv_usec /\ io.tv.tv_usec < UsecPerSec
        /\ io.tv.tv_sec * UsecPerSec + io.tv.tv_usec = io.d

\* The whole seconds of d fit the type of tv_sec in the build.
FitsTvSec(d, build) == build = "win32" => to_seconds(d) <= IntMax

\* Where the seconds fit, the conversion is exact; the microseconds are
\* within a second for every non-negative duration.
ToTimevalExactWhenSecondsFit ==
    io.pc = "tv" /\ io.d >= 0 =>
        /\ 0 <= io.tv.tv_usec /\ io.tv.tv_usec < UsecPerSec
        /\ FitsTvSec(io.d, io.build) => io.tv.tv_sec * UsecPerSec + io.tv.tv_usec = io.d

====
